---- MODULE Spec2Model ----
(***************************************************************************)
(* A model of the signal, risk and order-dispatch engine of the Pionex     *)
(* trading bot: PionexTradingBot (trading_bot.py), EnhancedMarketAnalyzer  *)
(* (market_analyzer.py) and TradingUI.stop_trading (user_interface.py).    *)
(*                                                                         *)
(* Numbers.  Python floats are modelled by exact fixed-point integers:     *)
(*   - price_change is a whole percentage (5 means 5%);                    *)
(*   - scores and confidences are in units of 1/Scale (Scale = 750 is the  *)
(*     common denominator of total_score = ts*0.6 + ((tr+vt+pc/100)/3)*0.4)*)
(*   - position sizes are in units of 1/(10*Scale) USDT.                   *)
(* Python's None is the empty sequence, a value v that is present is <<v>>.*)
(***************************************************************************)
EXTENDS Integers, Sequences, FiniteSets, TLC

None == <<>>
Some(v) == <<v>>
IsNone(o) == Len(o) = 0
Val(o) == o[1]

Abs(x) == IF x < 0 THEN -x ELSE x
Min(a, b) == IF a <= b THEN a ELSE b

(***************************************************************************)
(* Bounds of the model.                                                    *)
(***************************************************************************)
NumPairs == 2        \* length of trading_pairs
MaxTicks == 2        \* ticks of trading_loop that are explored
MaxDirectCalls == 2  \* direct calls of place_buy_order / place_sell_order

(***************************************************************************)
(* Program constants.                                                      *)
(***************************************************************************)
Scale == 750
VOLUME_THRESHOLD == 1000
RSI_OVERSOLD == 30
RSI_OVERBOUGHT == 70
KDJ_OVERSOLD == 20
KDJ_OVERBOUGHT == 80
POSITION_LOW == 30
POSITION_HIGH == 70

(***************************************************************************)
(* Exchange gateway: make_request.                                         *)
(* The outcome of the one HTTP exchange is the environment's choice.       *)
(***************************************************************************)
Outcomes == {"ok", "timeout", "http5xx", "ratelimit", "auth", "result_false"}
Transient == {"timeout", "http5xx", "ratelimit"}

\* make_request issues requests.request once; a Timeout/ConnectionError, a
\* non-2xx status (raise_for_status) and a body with result false each raise.
\* attempts is the number of times requests.request ran within the call.
MakeRequest(outcome) ==
  [raised |-> outcome # "ok", outcome |-> outcome, attempts |-> 1]

(***************************************************************************)
(* _get_basic_signals                                                      *)
(* ind = [rsi, k, d, market_strength, volume_intensity, price_position,    *)
(* nan]; nan names the readings among "rsi" and "kdj" that calculate_rsi   *)
(* and calculate_kdj returned as NaN: every comparison with them is false. *)
(***************************************************************************)
TrendStrongUp(ind) ==
  ind.market_strength > 0 /\ ind.volume_intensity > VOLUME_THRESHOLD

\* the elif branch: taken only when the if branch was not
TrendStrongDown(ind) ==
  /\ ~TrendStrongUp(ind)
  /\ ind.market_strength < 0 /\ ind.volume_intensity > VOLUME_THRESHOLD

SignalFlags(ind) ==
  [ price_position    |-> ind.price_position,
    rsi_oversold      |-> "rsi" \notin ind.nan /\ ind.rsi < RSI_OVERSOLD,
    rsi_overbought    |-> "rsi" \notin ind.nan /\ ind.rsi > RSI_OVERBOUGHT,
    kdj_oversold      |-> /\ "kdj" \notin ind.nan
                          /\ ind.k < KDJ_OVERSOLD /\ ind.d < KDJ_OVERSOLD,
    kdj_overbought    |-> /\ "kdj" \notin ind.nan
                          /\ ind.k > KDJ_OVERBOUGHT /\ ind.d > KDJ_OVERBOUGHT,
    trend_strong_up   |-> TrendStrongUp(ind),
    trend_strong_down |-> TrendStrongDown(ind) ]

\* the buy condition with the price position compared by <=
BuyCondition_Inclusive(s) ==
  /\ s.trend_strong_up
  /\ (s.rsi_oversold \/ s.kdj_oversold)
  /\ s.price_position <= POSITION_LOW

\* the condition of the if at lines 380-382
BuyCondition(s) ==
  /\ s.trend_strong_up
  /\ (s.rsi_oversold \/ s.kdj_oversold)
  /\ s.price_position < POSITION_LOW

\* a sell block pasted from the buy block with only the direction edited
SellCondition_Pasted(s) ==
  /\ s.trend_strong_up
  /\ (s.rsi_oversold \/ s.kdj_oversold)
  /\ s.price_position < POSITION_LOW

\* the condition of the elif at lines 385-387
SellCondition(s) ==
  /\ s.trend_strong_down
  /\ (s.rsi_overbought \/ s.kdj_overbought)
  /\ s.price_position > POSITION_HIGH

BasicSignals(ind) ==
  LET s == SignalFlags(ind)
      dir == IF BuyCondition(s) THEN "buy"
             ELSE IF SellCondition(s) THEN "sell" ELSE "none"
  IN [ flags |-> s, should_trade |-> dir # "none", direction |-> dir ]

(***************************************************************************)
(* check_signals                                                           *)
(***************************************************************************)
\* the attributes PionexTradingBot.__init__ assigns
BotAttributes ==
  {"api_key", "api_secret", "base_url", "headers", "trading_pairs", "config",
   "market_analyzer", "ai_advisor"}

\* what the advisor's recommendation may say; _extract_trading_action of the
\* repository is a stub that yields None ("none")
AdvisoryActions == {"buy", "sell", "hold", "none"}

\* signals.update at lines 329-334
MergeAdvisory(signals, action) ==
  [ flags        |-> signals.flags,
    should_trade |-> signals.should_trade \/ action # "hold",
    direction    |-> IF action # "hold" THEN action ELSE signals.direction ]

\* ai = [analysis : BOOLEAN, recommendation : None or <<action>>]: what the
\* advisor's two calls return (analysis FALSE: analyze_market_conditions
\* returned None)
CheckSignals(ind, has_advisor, ai) ==
  LET signals == BasicSignals(ind) IN
  IF ~has_advisor THEN Some(signals)
  ELSE IF "current_symbol" \notin BotAttributes
       THEN None   \* _prepare_market_data: AttributeError, caught at line 338
  ELSE IF ~ai.analysis \/ IsNone(ai.recommendation) THEN Some(signals)
  ELSE Some(MergeAdvisory(signals, Val(ai.recommendation)))

(***************************************************************************)
(* EnhancedMarketAnalyzer.analyze_market                                   *)
(* snap = [kind, price_change, volume_intensity]; kind "ok" is a non-empty *)
(* DataFrame whose last row has a symbol and every required numeric field. *)
(***************************************************************************)
SnapshotKinds ==
  {"ok", "not_dataframe", "empty", "no_symbol", "missing_field", "bad_value"}

MarketStrength(snap) ==
  IF snap.price_change > 0 /\ snap.volume_intensity > VOLUME_THRESHOLD
  THEN 1 ELSE -1

VolumeTrend(snap) ==
  IF snap.volume_intensity > VOLUME_THRESHOLD THEN 1 ELSE -1

\* total_score * Scale with the two weights exchanged
TotalScore_WeightsSwapped(snap) ==
  300 * MarketStrength(snap)
    + 150 * MarketStrength(snap) + 150 * VolumeTrend(snap)
    + (3 * snap.price_change) \div 2

\* total_score * Scale, where
\*   sentiment_score = (trend_strength + volume_trend + price_change/100)/3
\*   total_score     = technical_score*0.6 + sentiment_score*0.4
TotalScore(snap) ==
  450 * MarketStrength(snap)
    + 100 * MarketStrength(snap) + 100 * VolumeTrend(snap) + snap.price_change

AnalyzeMarket(snap) ==
  IF snap.kind # "ok" THEN None
  ELSE
    LET total == TotalScore(snap)
        trade == 2 * Abs(total) > Scale      \* abs(total_score) > 0.5
    IN Some([ should_trade    |-> trade,
              trade_direction |-> IF ~trade THEN "none"
                                  ELSE IF total > 0 THEN "buy" ELSE "sell",
              confidence      |-> IF trade THEN Abs(total) ELSE 0,
              sentiment       |-> [ trend_strength  |-> MarketStrength(snap),
                                    volume_trend    |-> VolumeTrend(snap),
                                    market_momentum |-> snap.price_change ],
              score           |-> total ])

(***************************************************************************)
(* optimize_position_management                                            *)
(* account: None or <<available_balance>>; sentiment: a dict (record).     *)
(* The result is None or <<position_size * 10 * Scale>>.                   *)
(***************************************************************************)
HasKey(dict, key) == key \in DOMAIN dict

PositionSize_Uncapped(account, sentiment) ==
  IF IsNone(account) THEN None
  ELSE IF ~HasKey(sentiment, "confidence") THEN None
  ELSE Some(Val(account) * (Scale + sentiment.confidence))

OptimizePositionManagement(account, sentiment) ==
  IF IsNone(account) THEN None                        \* line 961
  ELSE IF ~HasKey(sentiment, "confidence") THEN None  \* KeyError, line 974
  ELSE LET base == Val(account) * (Scale + sentiment.confidence)
           max_position == Val(account) * 3 * Scale
       IN Some(Min(base, max_position))

\* the cap of line 969, in the units of the result
MaxPosition(balance) == balance * 3 * Scale

(***************************************************************************)
(* calculate_dynamic_targets                                               *)
(* price: None or <<current_price>>. The targets are in units of           *)
(* 1/(200*Scale) of the price unit.                                        *)
(***************************************************************************)
CalculateDynamicTargets(price, sentiment) ==
  IF IsNone(price) THEN None                          \* line 982
  ELSE IF ~HasKey(sentiment, "confidence") THEN None  \* KeyError, line 998
  ELSE Some([ take_profit |->
                Val(price) * (200 * Scale + 4 * (Scale + sentiment.confidence)),
              stop_loss |->
                Val(price) * (200 * Scale - (2 * Scale - sentiment.confidence)) ])

(***************************************************************************)
(* State.                                                                  *)
(***************************************************************************)
VARIABLES
  trading_pairs,  \* self.trading_pairs: a sequence of pair ids
  is_trading,     \* self.is_trading
  ai_advisor,     \* whether self.ai_advisor is configured
  pc,             \* where the single thread of the bot is
  caller,         \* who entered place_*_order: "loop" or "direct"
  idx,            \* position of the for loop in trading_pairs
  tick,           \* number of ticks (while iterations) started
  analysis,       \* the analysis dict of the pair in hand, None or <<dict>>
  flow,           \* locals of the pair iteration / place_*_order call
  start_result,   \* what start_trading returned: "none", "False", "True"
  ndirect,        \* direct calls of place_*_order made so far
  \* history of the session, read by the properties only
  visited,        \* pairs whose body was entered in this tick
  skipped,        \* pairs left by a failure in this tick
  stop_tick,      \* tick during which stop_trading was first called, 0: never
  authFailed,     \* some request failed with an authentication error
  reqAfterAuth,   \* a request was dispatched after such a failure
  ambiguous,      \* per pair: fate of an order whose POST timed out
  resubmitted,    \* a POST was dispatched for a pair with an unresolved order
  \* one call of a function of the engine, for the function-level properties
  fn, args, ret,
  \* a RiskManager object
  daily_pnl,      \* self.daily_pnl
  positions,      \* self.positions: per symbol None or <<entry_price>>
  risk_last,      \* the last call made on the object and what it returned
  \* the requests made through make_request
  clock,          \* what time.time() * 1000 reads, in whole milliseconds
  wire,           \* the requests handed to requests.request, in order
  gw_ret,         \* outcome of the last make_request call
  gw_log          \* the messages the last make_request call handed to logging

loopVars == <<trading_pairs, is_trading, ai_advisor, pc, caller, idx, tick,
              analysis, flow, start_result, ndirect>>
histVars == <<visited, skipped, stop_tick, authFailed, reqAfterAuth,
              ambiguous, resubmitted>>
callVars == <<fn, args, ret>>
riskVars == <<daily_pnl, positions, risk_last>>
gwVars == <<clock, wire, gw_ret, gw_log>>
vars == <<loopVars, histVars, callVars, riskVars, gwVars>>

Pairs == 1..NumPairs

\* the symbols a RiskManager is asked about
Symbols == {"BTC_USDT", "ETH_USDT"}

\* risk_last before any call: no method, nothing returned
NoRiskCall ==
  [ fn |-> "none", symbol |-> "", price |-> 0, pnl |-> 0,
    flag |-> FALSE, raised |-> FALSE, after_halt |-> FALSE,
    halted |-> FALSE, n |-> 0, entry |-> None ]

NoFlow ==
  [ pair |-> 0, side |-> "none", fetched |-> FALSE, req_failed |-> FALSE,
    price |-> None, balance |-> None, size |-> None, targets |-> None,
    posted |-> FALSE, order_id |-> FALSE, ai_analysis |-> FALSE ]

\* what the exchange may answer
Balances == {0, 1000}
Prices == {100}

\* the snapshots get_market_data may build in the loop
LoopSnapshots ==
  { [kind |-> "ok", price_change |-> 5,   volume_intensity |-> 2000],
    [kind |-> "ok", price_change |-> 0,   volume_intensity |-> 500],
    [kind |-> "ok", price_change |-> 300, volume_intensity |-> 500] }

\* the analysis dicts a direct caller of place_*_order may pass: one built by
\* analyze_market, one whose sentiment carries a confidence (0.5)
DirectAnalyses ==
  { Val(AnalyzeMarket([kind |-> "ok", price_change |-> 5,
                       volume_intensity |-> 2000])),
    [ should_trade |-> TRUE, trade_direction |-> "buy",
      confidence |-> Scale \div 2,
      sentiment |-> [confidence |-> Scale \div 2], score |-> Scale \div 2 ] }

Init ==
  /\ trading_pairs = [i \in Pairs |-> i]
  /\ is_trading = FALSE
  /\ ai_advisor \in BOOLEAN
  /\ pc = "idle"
  /\ caller = "none"
  /\ idx = 0
  /\ tick = 0
  /\ analysis = None
  /\ flow = NoFlow
  /\ start_result = "none"
  /\ ndirect = 0
  /\ visited = {}
  /\ skipped = {}
  /\ stop_tick = 0
  /\ authFailed = FALSE
  /\ reqAfterAuth = FALSE
  /\ ambiguous = [p \in Pairs |-> "none"]
  /\ resubmitted = FALSE
  /\ fn = "none"
  /\ args = <<>>
  /\ ret = <<>>
  /\ daily_pnl = 0
  /\ positions = [sym \in Symbols |-> None]
  /\ risk_last = NoRiskCall
  /\ clock = 0
  /\ wire = <<>>
  /\ gw_ret = None
  /\ gw_log = {}

(***************************************************************************)
(* One HTTP exchange made through make_request: the history it leaves.     *)
(***************************************************************************)
Dispatched(outcome) ==
  /\ authFailed' = (authFailed \/ (outcome = "auth" /\ caller = "loop"))
  /\ reqAfterAuth' = (reqAfterAuth \/ (authFailed /\ caller = "loop"))

\* a successful GET /api/v1/account/balances shows, for an order that timed
\* out and was not executed, that it was not executed
Requeried(outcome) ==
  IF outcome = "ok"
  THEN [p \in Pairs |-> IF ambiguous[p] = "lost" THEN "none" ELSE ambiguous[p]]
  ELSE ambiguous

(***************************************************************************)
(* trading_loop and the handlers it calls.  Every make_request is one step.*)
(***************************************************************************)
\* `break` in the place of `continue`: the failure ends the tick
Continue_Break == "sleep"

\* `continue` at lines 1037, 1044 and 1065: on to the end of the for body
Continue == "pair_done"

\* return from place_buy_order / place_sell_order to whoever called it
FlowReturn == IF caller = "loop" THEN "pair_done" ELSE "idle"

\* analysis['sentiment'] in place_buy_order,
\* analysis.get('sentiment', {'confidence': 0.5}) in place_sell_order
SentimentOf(a, side) ==
  IF HasKey(a, "sentiment") THEN Some(a.sentiment)
  ELSE IF side = "sell" THEN Some([confidence |-> Scale \div 2])
  ELSE None

\* the first iteration of `while self.is_trading` / `for pair in ...`
EnterTick ==
  /\ tick' = tick + 1
  /\ idx' = 1
  /\ pc' = IF Len(trading_pairs) >= 1 THEN "fetch" ELSE "sleep"
  /\ visited' = {}
  /\ skipped' = {}
  /\ analysis' = None
  /\ flow' = NoFlow

\* PionexTradingBot.start_trading, up to the first request of trading_loop
StartTrading(settings_given) ==
  /\ pc = "idle"
  /\ IF ~settings_given
     THEN /\ start_result' = "False"
          /\ UNCHANGED <<is_trading, caller, pc, idx, tick, analysis, flow,
                         visited, skipped>>
     ELSE /\ is_trading' = TRUE
          /\ caller' = "loop"
          /\ EnterTick
          /\ UNCHANGED start_result
  /\ UNCHANGED <<trading_pairs, ai_advisor, ndirect, stop_tick, authFailed,
                 reqAfterAuth, ambiguous, resubmitted, callVars, riskVars, gwVars>>

\* an advisor whose failure reaches the caller as an exception
AnalyzeMarketConditions_Raising(ai_answers) ==
  [raised |-> ~ai_answers, result |-> ai_answers]

\* AITradeAdvisor.analyze_market_conditions: the analysis when the advisor
\* answers, None on every failure (`except Exception: return None`)
AnalyzeMarketConditions(ai_answers) ==
  [raised |-> FALSE, result |-> ai_answers]

\* lines 1031-1065: get_market_data, analyze_market, the advisor, and the
\* dispatch of execute_trading_strategy
FetchAndAnalyze(outcome, has_data, snap, ai_answers) ==
  /\ pc = "fetch"
  /\ Dispatched(outcome)
  /\ visited' = visited \cup {idx}
  /\ LET pair == trading_pairs[idx]
         market_data == IF outcome = "ok" /\ has_data THEN Some(snap) ELSE None
         a == IF IsNone(market_data) THEN None
              ELSE AnalyzeMarket(Val(market_data))
         adv == IF ai_advisor /\ ~IsNone(a)
                THEN AnalyzeMarketConditions(ai_answers)
                ELSE [raised |-> FALSE, result |-> FALSE]
         f == [NoFlow EXCEPT !.pair = pair,
                             !.req_failed = (outcome # "ok"),
                             !.fetched = ~IsNone(market_data),
                             !.ai_analysis = adv.result /\ ~adv.raised]
     IN IF IsNone(a) \/ adv.raised
        THEN /\ skipped' = skipped \cup {idx}
             /\ analysis' = None
             /\ flow' = f
             /\ pc' = Continue
        ELSE /\ skipped' = skipped
             /\ analysis' = a
             /\ flow' = [f EXCEPT !.side = IF Val(a).should_trade
                                            THEN Val(a).trade_direction
                                            ELSE "none"]
             /\ pc' = IF ~Val(a).should_trade THEN "pair_done"
                      ELSE IF Val(a).trade_direction \in {"buy", "sell"}
                           THEN "price" ELSE "pair_done"
  /\ UNCHANGED <<trading_pairs, is_trading, ai_advisor, caller, idx, tick,
                 start_result, ndirect, stop_tick, ambiguous, resubmitted,
                 callVars, riskVars, gwVars>>

\* get_current_price at the head of place_buy_order / place_sell_order
GetPrice(outcome, p) ==
  /\ pc = "price"
  /\ Dispatched(outcome)
  /\ LET price == IF outcome = "ok" THEN Some(p) ELSE None
     IN /\ flow' = [flow EXCEPT !.price = price,
                                !.req_failed = @ \/ outcome # "ok"]
        /\ pc' = IF IsNone(price) THEN FlowReturn
                 ELSE IF flow.side = "buy" THEN "size" ELSE "account"
  /\ UNCHANGED <<trading_pairs, is_trading, ai_advisor, caller, idx, tick,
                 analysis, start_result, ndirect, visited, skipped, stop_tick,
                 ambiguous, resubmitted, callVars, riskVars, gwVars>>

\* place_sell_order, lines 1119-1122: get_account_status and the balance test
SellAccount(outcome, bal) ==
  /\ pc = "account"
  /\ Dispatched(outcome)
  /\ ambiguous' = Requeried(outcome)
  /\ LET account == IF outcome = "ok" THEN Some(bal) ELSE None
     IN /\ flow' = [flow EXCEPT !.balance = account,
                                !.req_failed = @ \/ outcome # "ok"]
        /\ pc' = IF IsNone(account) \/ Val(account) <= 0 THEN FlowReturn
                 ELSE "size"
  /\ UNCHANGED <<trading_pairs, is_trading, ai_advisor, caller, idx, tick,
                 analysis, start_result, ndirect, visited, skipped, stop_tick,
                 resubmitted, callVars, riskVars, gwVars>>

\* the test of the position size with `<= 0` left out
InvalidSize_NoneOnly(size) == IsNone(size)

\* lines 1086 and 1132: `position_size is None or position_size <= 0`
InvalidSize(size) == IsNone(size) \/ Val(size) <= 0

\* optimize_position_management (its get_account_status included) and the
\* test of its result in place_*_order
ComputeSize(outcome, bal) ==
  /\ pc = "size"
  /\ Dispatched(outcome)
  /\ ambiguous' = Requeried(outcome)
  /\ LET account == IF outcome = "ok" THEN Some(bal) ELSE None
         sentiment == SentimentOf(Val(analysis), flow.side)
         size == IF IsNone(sentiment) THEN None
                 ELSE OptimizePositionManagement(account, Val(sentiment))
     IN /\ flow' = [flow EXCEPT !.balance = account, !.size = size,
                                !.req_failed = @ \/ outcome # "ok"]
        /\ pc' = IF InvalidSize(size) THEN FlowReturn ELSE "targets"
  /\ UNCHANGED <<trading_pairs, is_trading, ai_advisor, caller, idx, tick,
                 analysis, start_result, ndirect, visited, skipped, stop_tick,
                 resubmitted, callVars, riskVars, gwVars>>

\* calculate_dynamic_targets (its get_current_price included) and the test
\* of its result in place_*_order
ComputeTargets(outcome, p) ==
  /\ pc = "targets"
  /\ Dispatched(outcome)
  /\ LET price == IF outcome = "ok" THEN Some(p) ELSE None
         sentiment == SentimentOf(Val(analysis), flow.side)
         targets == IF IsNone(sentiment) THEN None
                    ELSE CalculateDynamicTargets(price, Val(sentiment))
     IN /\ flow' = [flow EXCEPT !.targets = targets,
                                !.req_failed = @ \/ outcome # "ok"]
        /\ pc' = IF IsNone(targets) THEN FlowReturn ELSE "order_price"
  /\ UNCHANGED <<trading_pairs, is_trading, ai_advisor, caller, idx, tick,
                 analysis, start_result, ndirect, visited, skipped, stop_tick,
                 ambiguous, resubmitted, callVars, riskVars, gwVars>>

\* place_order, line 930: the price is only logged, None is accepted
OrderPrice(outcome) ==
  /\ pc = "order_price"
  /\ Dispatched(outcome)
  /\ flow' = [flow EXCEPT !.req_failed = @ \/ outcome # "ok"]
  /\ pc' = "order_post"
  /\ UNCHANGED <<trading_pairs, is_trading, ai_advisor, caller, idx, tick,
                 analysis, start_result, ndirect, visited, skipped, stop_tick,
                 ambiguous, resubmitted, callVars, riskVars, gwVars>>

\* place_order, lines 941-954: POST /api/v1/order; when it times out the
\* exchange may or may not have executed the order
OrderPost(outcome, executed) ==
  /\ pc = "order_post"
  /\ Dispatched(outcome)
  /\ resubmitted' = (resubmitted \/ ambiguous[flow.pair] # "none")
  /\ ambiguous' = IF outcome = "timeout"
                  THEN [ambiguous EXCEPT
                          ![flow.pair] = IF executed THEN "executed" ELSE "lost"]
                  ELSE ambiguous
  /\ flow' = [flow EXCEPT !.posted = TRUE, !.order_id = (outcome = "ok"),
                          !.req_failed = @ \/ outcome # "ok"]
  /\ pc' = FlowReturn
  /\ UNCHANGED <<trading_pairs, is_trading, ai_advisor, caller, idx, tick,
                 analysis, start_result, ndirect, visited, skipped, stop_tick,
                 callVars, riskVars, gwVars>>

\* the end of the for body: the next pair, or time.sleep(60)
NextPair ==
  /\ pc = "pair_done"
  /\ IF idx < Len(trading_pairs)
     THEN idx' = idx + 1 /\ pc' = "fetch"
     ELSE idx' = idx /\ pc' = "sleep"
  /\ analysis' = None
  /\ flow' = NoFlow
  /\ UNCHANGED <<trading_pairs, is_trading, ai_advisor, caller, tick,
                 start_result, ndirect, histVars, callVars, riskVars, gwVars>>

\* time.sleep(60) returns and `while self.is_trading` is evaluated again
NextTick ==
  /\ pc = "sleep"
  /\ tick < MaxTicks
  /\ IF is_trading
     THEN EnterTick /\ UNCHANGED start_result
     ELSE /\ pc' = "returned"
          /\ start_result' = "True"
          /\ UNCHANGED <<idx, tick, analysis, flow, visited, skipped>>
  /\ UNCHANGED <<trading_pairs, is_trading, ai_advisor, caller, ndirect,
                 stop_tick, authFailed, reqAfterAuth, ambiguous, resubmitted,
                 callVars, riskVars, gwVars>>

\* the outer handler of trading_loop, had it ended without `raise`
TradingLoopHandler_Swallowing == [is_trading |-> FALSE, raised |-> FALSE]

\* lines 1070-1073: the outer `except Exception` of trading_loop logs, sets
\* self.is_trading = False and re-raises
TradingLoopHandler == [is_trading |-> FALSE, raised |-> TRUE]

\* an exception raised in trading_loop outside the per-pair try (iterating
\* self.trading_pairs, time.sleep, a failing log call in the per-pair
\* handler): the outer handler runs, and start_trading returns True (line
\* 1019) when trading_loop returned, False (lines 1021-1023) when it raised
ExceptionEscapesLoop ==
  /\ pc = "sleep"
  /\ caller = "loop"
  /\ is_trading
  /\ is_trading' = TradingLoopHandler.is_trading
  /\ pc' = "returned"
  /\ start_result' = IF TradingLoopHandler.raised THEN "False" ELSE "True"
  /\ UNCHANGED <<trading_pairs, ai_advisor, caller, idx, tick, analysis, flow,
                 ndirect, histVars, callVars, riskVars, gwVars>>

\* TradingUI.stop_trading: two status lines and the settings re-enabled;
\* nothing of the bot is written
StopTrading ==
  /\ stop_tick' = IF caller = "loop" /\ stop_tick = 0 THEN tick ELSE stop_tick
  /\ UNCHANGED <<loopVars, visited, skipped, authFailed, reqAfterAuth,
                 ambiguous, resubmitted, callVars, riskVars, gwVars>>

\* place_buy_order / place_sell_order called directly with a caller's analysis
CallPlaceOrder(p, side, a) ==
  /\ pc = "idle"
  /\ ndirect < MaxDirectCalls
  /\ ndirect' = ndirect + 1
  /\ caller' = "direct"
  /\ analysis' = Some(a)
  /\ flow' = [NoFlow EXCEPT !.pair = p, !.side = side]
  /\ pc' = "price"
  /\ UNCHANGED <<trading_pairs, is_trading, ai_advisor, idx, tick,
                 start_result, histVars, callVars, riskVars, gwVars>>

Next ==
  \/ \E g \in BOOLEAN : StartTrading(g)
  \/ \E o \in Outcomes, d \in BOOLEAN, s \in LoopSnapshots, ai \in BOOLEAN :
       FetchAndAnalyze(o, d, s, ai)
  \/ \E o \in Outcomes, p \in Prices : GetPrice(o, p)
  \/ \E o \in Outcomes, b \in Balances : SellAccount(o, b)
  \/ \E o \in Outcomes, b \in Balances : ComputeSize(o, b)
  \/ \E o \in Outcomes, p \in Prices : ComputeTargets(o, p)
  \/ \E o \in Outcomes : OrderPrice(o)
  \/ \E o \in Outcomes, e \in BOOLEAN : OrderPost(o, e)
  \/ NextPair
  \/ NextTick
  \/ ExceptionEscapesLoop
  \/ StopTrading
  \/ \E p \in Pairs, side \in {"buy", "sell"}, a \in DirectAnalyses :
       CallPlaceOrder(p, side, a)

Spec == Init /\ [][Next]_vars

(***************************************************************************)
(* Single calls of the engine's functions, on inputs drawn from small sets.*)
(* Each behaviour makes one call: the functions keep no state between      *)
(* calls.                                                                  *)
(***************************************************************************)
IndicatorReadings ==
  [ rsi : {25, 30, 50, 70, 75}, k : {15, 20, 50, 80, 85}, d : {15, 50, 85},
    market_strength : {-1, 0, 1}, volume_intensity : {1000, 2000},
    price_position : {20, 30, 50, 70, 80}, nan : {{}, {"rsi", "kdj"}} ]

AdvisorAnswers ==
  [ analysis : BOOLEAN,
    recommendation : {None} \cup {Some(a) : a \in AdvisoryActions} ]

SnapshotInputs ==
  [ kind : SnapshotKinds, price_change : {-300, -5, 0, 5, 100, 300, 1100},
    volume_intensity : {500, 1000, 2000} ]

AccountInputs == {None} \cup {Some(b) : b \in {0, 100, 1000}}

ConfidenceInputs == {0 - 2 * Scale, 0, Scale \div 2, Scale, 2 * Scale,
                     2 * Scale + 1, 3 * Scale}

CallMakeRequest(outcome) ==
  /\ fn = "none"
  /\ fn' = "make_request"
  /\ args' = [outcome |-> outcome]
  /\ ret' = MakeRequest(outcome)
  /\ UNCHANGED <<loopVars, histVars, riskVars, gwVars>>

CallGetBasicSignals(ind) ==
  /\ fn = "none"
  /\ fn' = "_get_basic_signals"
  /\ args' = [ind |-> ind]
  /\ ret' = BasicSignals(ind)
  /\ UNCHANGED <<loopVars, histVars, riskVars, gwVars>>

CallCheckSignals(ind, ai) ==
  /\ fn = "none"
  /\ fn' = "check_signals"
  /\ args' = [ind |-> ind, ai |-> ai]
  /\ ret' = CheckSignals(ind, ai_advisor, ai)
  /\ UNCHANGED <<loopVars, histVars, riskVars, gwVars>>

CallAnalyzeMarket(snap) ==
  /\ fn = "none"
  /\ fn' = "analyze_market"
  /\ args' = [snap |-> snap]
  /\ ret' = AnalyzeMarket(snap)
  /\ UNCHANGED <<loopVars, histVars, riskVars, gwVars>>

\* with_confidence FALSE: the sentiment dict analyze_market builds
CallOptimizePositionManagement(account, with_confidence, c) ==
  /\ fn = "none"
  /\ fn' = "optimize_position_management"
  /\ LET sentiment ==
           IF with_confidence THEN [confidence |-> c]
           ELSE [trend_strength |-> 1, volume_trend |-> 1, market_momentum |-> c]
     IN /\ args' = [account |-> account, sentiment |-> sentiment]
        /\ ret' = OptimizePositionManagement(account, sentiment)
  /\ UNCHANGED <<loopVars, histVars, riskVars, gwVars>>

(***************************************************************************)
(* generate_signature.  A str is a sequence of one-character strings; a    *)
(* dict is the sequence of its <<key, value>> items in insertion order,    *)
(* keys unique.  A value is a str or an int: [t, s, n].                    *)
(***************************************************************************)
\* the characters in use, in code-point order
CharOrder ==
  << "&", "/", "0", "1", "2", "3", "4", "5", "6", "7", "8", "9", "=", "?",
     "A", "B", "E", "G", "M", "O", "P", "S", "T",
     "a", "b", "e", "g", "i", "m", "o", "p", "s", "t" >>

Ord(c) == CHOOSE i \in 1..Len(CharOrder) : CharOrder[i] = c

LowerLetters == << "a", "b", "e", "g", "i", "m", "o", "p", "s", "t" >>
UpperLetters == << "A", "B", "E", "G", "I", "M", "O", "P", "S", "T" >>

\* str.upper(), character by character
UpperChar(c) ==
  IF \E i \in 1..Len(LowerLetters) : LowerLetters[i] = c
  THEN UpperLetters[CHOOSE i \in 1..Len(LowerLetters) : LowerLetters[i] = c]
  ELSE c

Upper(str) == [i \in 1..Len(str) |-> UpperChar(str[i])]

\* str < str in Python: by code point, a proper prefix first
RECURSIVE StrLess(_, _)
StrLess(x, y) ==
  IF y = <<>> THEN FALSE
  ELSE IF x = <<>> THEN TRUE
  ELSE IF Head(x) # Head(y) THEN Ord(Head(x)) < Ord(Head(y))
  ELSE StrLess(Tail(x), Tail(y))

DigitChars == << "0", "1", "2", "3", "4", "5", "6", "7", "8", "9" >>

\* str(n) for an int n >= 0
RECURSIVE Digits(_)
Digits(n) ==
  IF n < 10 THEN << DigitChars[n + 1] >>
  ELSE Digits(n \div 10) \o << DigitChars[(n % 10) + 1] >>

StrValue(s) == [t |-> "str", s |-> s, n |-> 0]
IntValue(n) == [t |-> "int", s |-> <<>>, n |-> n]

\* f"{value}"
Format(v) == IF v.t = "int" THEN Digits(v.n) ELSE v.s

TIMESTAMP_KEY == << "t", "i", "m", "e", "s", "t", "a", "m", "p" >>

DictKeys(d) == { d[i][1] : i \in 1..Len(d) }

\* d[k] = v: an existing key keeps its place, a new key goes last
DictSet(d, k, v) ==
  IF k \in DictKeys(d)
  THEN [i \in 1..Len(d) |-> IF d[i][1] = k THEN <<k, v>> ELSE d[i]]
  ELSE Append(d, <<k, v>>)

\* the items left in insertion order
SortByKey_InsertionOrder(items) == items

\* sorted(items, key=lambda x: x[0]): insertion sort, stable
RECURSIVE SortByKey(_)
SortByKey(items) ==
  IF items = <<>> THEN <<>>
  ELSE LET rest == SortByKey(Tail(items))
           x == Head(items)
           before == SelectSeq(rest, LAMBDA y : StrLess(y[1], x[1]))
           after == SelectSeq(rest, LAMBDA y : ~StrLess(y[1], x[1]))
       IN before \o <<x>> \o after

\* '&'.join(f"{key}={value}" for key, value in sorted_params)
RECURSIVE ParamStr(_)
ParamStr(items) ==
  IF items = <<>> THEN <<>>
  ELSE LET kv == Head(items)[1] \o << "=" >> \o Format(Head(items)[2])
       IN IF Len(items) = 1 THEN kv
          ELSE kv \o << "&" >> \o ParamStr(Tail(items))

\* the string to sign with the endpoint left out
SignStr_NoEndpoint(method, endpoint, param_str) ==
  Upper(method) \o (IF param_str # <<>> THEN << "?" >> \o param_str ELSE <<>>)

\* lines 77-79: method.upper(), the endpoint, "?" and the parameters
SignStr(method, endpoint, param_str) ==
  Upper(method) \o endpoint
    \o (IF param_str # <<>> THEN << "?" >> \o param_str ELSE <<>>)

\* hmac.new(secret, message, sha256).hexdigest(), taken as collision free
Hmac(secret, message) == [key |-> secret, message |-> message]

API_SECRET == "api_secret"

\* generate_signature(params, method, endpoint) called when the clock reads
\* now; `params` of the result is the caller's dict after the call
GenerateSignature(params, method, endpoint, now) ==
  LET timestamp == Digits(now)
      sign_params == DictSet(params, TIMESTAMP_KEY, StrValue(timestamp))
      sorted_params == SortByKey(sign_params)
      sign_str == SignStr(method, endpoint, ParamStr(sorted_params))
  IN [ signature |-> Hmac(API_SECRET, sign_str),
       timestamp |-> timestamp,
       sign_str |-> sign_str,
       sorted_params |-> sorted_params,
       params |-> params ]

SigMethods == { << "G", "E", "T" >>, << "g", "e", "t" >>,
                << "P", "O", "S", "T" >> }
SigEndpoints == { << "/", "a" >>, << "/", "b" >> }
SigKeys == { << "a" >>, << "b" >>, TIMESTAMP_KEY }
SigValues == { StrValue(<< "1" >>), IntValue(1),
               StrValue(<< "1", "&", "b", "=", "2" >>) }
SigItems == SigKeys \X SigValues
ParamDicts ==
  { <<>> } \cup { << x >> : x \in SigItems }
    \cup { d \in SigItems \X SigItems : d[1][1] # d[2][1] }

SigCalls == [method : SigMethods, endpoint : SigEndpoints, params : ParamDicts]

\* two calls of generate_signature made at the same reading of the clock
CallGenerateSignatureTwice(a, b, now) ==
  /\ fn = "none"
  /\ fn' = "generate_signature"
  /\ args' = [a |-> a, b |-> b, now |-> now]
  /\ ret' = [ a |-> GenerateSignature(a.params, a.method, a.endpoint, now),
              b |-> GenerateSignature(b.params, b.method, b.endpoint, now) ]
  /\ UNCHANGED <<loopVars, histVars, riskVars, gwVars>>

(***************************************************************************)
(* analyze_market_sentiment.  data = [kind, close, true_range,             *)
(* price_change, volume_intensity]; kind "ok" is a non-empty DataFrame     *)
(* whose last row holds every required field with a numeric value.         *)
(***************************************************************************)
SentimentDataKinds == {"ok", "no_data", "empty", "missing_field", "bad_value"}

\* lines 298-327: each failed check logs and returns None; lines 330-340:
\* the sentiment dict, volatility_level in whole percent
AnalyzeMarketSentiment(data) ==
  IF data.kind # "ok" THEN None
  ELSE Some([ fear_greed_index |-> 50,
              trend_strength   |-> IF data.price_change > 0 THEN 1 ELSE -1,
              volume_trend     |-> IF data.volume_intensity > VOLUME_THRESHOLD
                                   THEN 1 ELSE -1,
              volatility_level |-> IF data.close > 0
                                   THEN (data.true_range * 100) \div data.close
                                   ELSE 0,
              market_momentum  |-> data.price_change ])

SentimentInputs ==
  [ kind : SentimentDataKinds, close : {0, 100}, true_range : {5},
    price_change : {-5, 0, 5}, volume_intensity : {500, 2000} ]

CallAnalyzeMarketSentiment(data) ==
  /\ fn = "none"
  /\ fn' = "analyze_market_sentiment"
  /\ args' = [data |-> data]
  /\ ret' = AnalyzeMarketSentiment(data)
  /\ UNCHANGED <<loopVars, histVars, riskVars, gwVars>>

(***************************************************************************)
(* optimize_strategy_parameters and _update_strategy_parameters.  config   *)
(* is self.config restricted to the risk-limit keys; params is the dict    *)
(* of the advisor, each key None or <<value>>.                             *)
(***************************************************************************)
RiskConfig ==
  [ stop_loss_percentage |-> 2, take_profit_percentage |-> 6,
    position_size |-> 10, leverage |-> 3, trailing_stop |-> 1 ]

\* `if params.get(key):` is true of a value that is present and not 0
Truthy(v) == ~IsNone(v) /\ Val(v) # 0

\* _update_strategy_parameters, lines 467-480
UpdateStrategyParameters(config, params) ==
  [ stop_loss_percentage |->
      IF Truthy(params.stop_loss_ratio) THEN Val(params.stop_loss_ratio)
      ELSE config.stop_loss_percentage,
    take_profit_percentage |->
      IF Truthy(params.take_profit_ratio) THEN Val(params.take_profit_ratio)
      ELSE config.take_profit_percentage,
    position_size |->
      IF Truthy(params.position_size) THEN Val(params.position_size)
      ELSE config.position_size,
    leverage |->
      IF Truthy(params.leverage) THEN Val(params.leverage)
      ELSE config.leverage,
    trailing_stop |->
      IF Truthy(params.trailing_stop) THEN Val(params.trailing_stop)
      ELSE config.trailing_stop ]

\* _get_historical_performance calls calculate_win_rate and four more
\* methods that the class does not define: AttributeError
HistoricalPerformanceRaises == TRUE

\* optimize_strategy_parameters; optimized is what the advisor's
\* optimize_trade_parameters returns, None or <<params>>
OptimizeStrategyParameters(config, has_advisor, optimized) ==
  IF HistoricalPerformanceRaises
  THEN [result |-> FALSE, config |-> config]          \* lines 450-452
  ELSE IF has_advisor /\ ~IsNone(optimized)
  THEN [result |-> TRUE,
        config |-> UpdateStrategyParameters(config, Val(optimized))]
  ELSE [result |-> FALSE, config |-> config]

AdvisorValues == {None, Some(0), Some(5)}

AdvisorParams ==
  [ stop_loss_ratio : AdvisorValues, take_profit_ratio : AdvisorValues,
    position_size : AdvisorValues, leverage : AdvisorValues,
    trailing_stop : AdvisorValues ]

CallUpdateStrategyParameters(params) ==
  /\ fn = "none"
  /\ fn' = "_update_strategy_parameters"
  /\ args' = [config |-> RiskConfig, params |-> params]
  /\ ret' = [ result |-> TRUE,
              config |-> UpdateStrategyParameters(RiskConfig, params) ]
  /\ UNCHANGED <<loopVars, histVars, riskVars, gwVars>>

CallOptimizeStrategyParameters(answers, params) ==
  /\ fn = "none"
  /\ fn' = "optimize_strategy_parameters"
  /\ args' = [config |-> RiskConfig, params |-> params]
  /\ ret' = OptimizeStrategyParameters(
              RiskConfig, ai_advisor, IF answers THEN Some(params) ELSE None)
  /\ UNCHANGED <<loopVars, histVars, riskVars, gwVars>>

(***************************************************************************)
(* calculate_indicators followed by _get_basic_signals on the last row.    *)
(* row = [high, low, close, price_change, volume_intensity].  What         *)
(* calculate_rsi and calculate_kdj return for the series is left open:     *)
(* a number, their default of 50, or NaN (0/0 on a flat series).           *)
(***************************************************************************)
\* the price position with 0 for a row whose high equals its low
PricePosition_DefaultZero(row) ==
  IF row.high # row.low
  THEN ((row.close - row.low) * 100) \div (row.high - row.low)
  ELSE 0

\* lines 284-286
PricePosition(row) ==
  IF row.high # row.low
  THEN ((row.close - row.low) * 100) \div (row.high - row.low)
  ELSE 50

\* lines 276-280
RowMarketStrength(row) ==
  IF row.price_change > 0 /\ row.volume_intensity > VOLUME_THRESHOLD THEN 1
  ELSE IF row.price_change < 0 /\ row.volume_intensity > VOLUME_THRESHOLD
  THEN -1 ELSE 0

\* calculate_indicators on a frame that is not empty: the columns it adds
\* to the row
CalculateIndicators(row) ==
  [ market_strength |-> RowMarketStrength(row),
    price_position  |-> PricePosition(row) ]

CandleInputs ==
  [ high : {100}, low : {100}, close : {100},
    price_change : {-5, 0, 5}, volume_intensity : {500, 2000} ]
  \cup [ high : {110}, low : {90}, close : {92, 100, 108},
         price_change : {-5, 0, 5}, volume_intensity : {500, 2000} ]

CallIndicatorsAndSignals(row, rsi, kd, nan) ==
  /\ fn = "none"
  /\ fn' = "calculate_indicators"
  /\ args' = [row |-> row, rsi |-> rsi, kd |-> kd, nan |-> nan]
  /\ LET df == CalculateIndicators(row)
     IN ret' = [ indicators |-> df,
                 signals |-> BasicSignals(
                   [ rsi |-> rsi, k |-> kd, d |-> kd, nan |-> nan,
                     market_strength |-> df.market_strength,
                     volume_intensity |-> row.volume_intensity,
                     price_position |-> df.price_position ]) ]
  /\ UNCHANGED <<loopVars, histVars, riskVars, gwVars>>

(***************************************************************************)
(* calculate_dynamic_targets called with a sentiment that carries the      *)
(* confidence analyze_market produced for a snapshot.                      *)
(***************************************************************************)
TargetPrices == { None, Some(1), Some(100) }

TargetSnapshots == { s \in SnapshotInputs : s.kind = "ok" }

CallCalculateDynamicTargets(price, snap) ==
  /\ fn = "none"
  /\ fn' = "calculate_dynamic_targets"
  /\ LET sentiment == [confidence |-> Val(AnalyzeMarket(snap)).confidence]
     IN /\ args' = [price |-> price, snap |-> snap, sentiment |-> sentiment]
        /\ ret' = CalculateDynamicTargets(price, sentiment)
  /\ UNCHANGED <<loopVars, histVars, riskVars, gwVars>>

(***************************************************************************)
(* get_top_volume_pairs and update_trading_pairs.  A ticker is             *)
(* [symbol, amount, fields_ok]: the symbol as a str, the 24h amount, and   *)
(* whether float() / int() accept its other fields (volume, close, open,   *)
(* high, low, count).  An entry returned is [symbol, volume], the volume   *)
(* being the ticker's amount (line 174).                                   *)
(***************************************************************************)
MaxTickers == 3
DEFAULT_LIMIT == 5

USDT_PERP == << "_", "U", "S", "D", "T", "_", "P", "E", "R", "P" >>

\* str.endswith
EndsWith(s, suffix) ==
  /\ Len(s) >= Len(suffix)
  /\ SubSeq(s, Len(s) - Len(suffix) + 1, Len(s)) = suffix

\* lines 142-183: the tickers that reach usdt_pairs.append; the others are
\* passed over by `continue`, those with an unreadable field through the
\* per-ticker `except Exception`
Appended(ticker) ==
  /\ ticker.symbol # <<>>
  /\ EndsWith(ticker.symbol, USDT_PERP)
  /\ ticker.amount > 0
  /\ ticker.fields_ok

\* the list left as it was
SortByAmount_Unsorted(items) == items

\* list.sort(key = amount, reverse = True): stable, largest amount first
RECURSIVE SortByAmount(_)
SortByAmount(items) ==
  IF items = <<>> THEN <<>>
  ELSE LET rest == SortByAmount(Tail(items))
           h == Head(items)
           before == SelectSeq(rest, LAMBDA t : t.amount > h.amount)
           after == SelectSeq(rest, LAMBDA t : t.amount <= h.amount)
       IN before \o << h >> \o after

\* get_top_volume_pairs(trading_bot, limit) on the tickers of the response
GetTopVolumePairs(tickers, limit) ==
  LET usdt_pairs == SortByAmount(SelectSeq(tickers, Appended))
      top == SubSeq(usdt_pairs, 1, Min(limit, Len(usdt_pairs)))
      top_pairs == [ i \in 1..Len(top) |->
                       [symbol |-> top[i].symbol, volume |-> top[i].amount] ]
  IN IF top_pairs = <<>>
     THEN [raised |-> TRUE, pairs |-> <<>>]       \* lines 190-191, 198-200
     ELSE [raised |-> FALSE, pairs |-> top_pairs]

\* update_trading_pairs: the new self.trading_pairs, or the exception
UpdateTradingPairs(old_pairs, tickers) ==
  LET pairs_data == GetTopVolumePairs(tickers, DEFAULT_LIMIT)
  IN IF pairs_data.raised
     THEN [raised |-> TRUE, trading_pairs |-> old_pairs]
     ELSE IF pairs_data.pairs = <<>>
     THEN [raised |-> FALSE, trading_pairs |-> old_pairs]
     ELSE [raised |-> FALSE,
           trading_pairs |-> [ i \in 1..Len(pairs_data.pairs) |->
                                 pairs_data.pairs[i].symbol ]]

TickerInputs ==
  [ symbol : { << "B" >> \o USDT_PERP, << "E" >> \o USDT_PERP },
    amount : {0, 1, 2}, fields_ok : BOOLEAN ]
    \cup { [symbol |-> << "B", "_", "U", "S", "D", "T" >>, amount |-> 2,
            fields_ok |-> TRUE],
           [symbol |-> <<>>, amount |-> 2, fields_ok |-> TRUE] }

TickerLists == UNION { [1..n -> TickerInputs] : n \in 0..MaxTickers }

LimitInputs == {1, 2, DEFAULT_LIMIT}

CallGetTopVolumePairs(tickers, limit) ==
  /\ fn = "none"
  /\ fn' = "get_top_volume_pairs"
  /\ args' = [tickers |-> tickers, limit |-> limit]
  /\ ret' = GetTopVolumePairs(tickers, limit)
  /\ UNCHANGED <<loopVars, histVars, riskVars, gwVars>>

CallUpdateTradingPairs(tickers) ==
  /\ fn = "none"
  /\ fn' = "update_trading_pairs"
  /\ args' = [tickers |-> tickers, limit |-> DEFAULT_LIMIT]
  /\ ret' = UpdateTradingPairs(<<>>, tickers)
  /\ UNCHANGED <<loopVars, histVars, riskVars, gwVars>>

NextCalls ==
  \/ fn = "none" /\ \E o \in Outcomes : CallMakeRequest(o)
  \/ fn = "none" /\ \E i \in IndicatorReadings : CallGetBasicSignals(i)
  \/ fn = "none" /\ \E i \in IndicatorReadings, ai \in AdvisorAnswers :
                      CallCheckSignals(i, ai)
  \/ fn = "none" /\ \E s \in SnapshotInputs : CallAnalyzeMarket(s)
  \/ fn = "none" /\ \E a \in AccountInputs, w \in BOOLEAN,
                         c \in ConfidenceInputs :
                      CallOptimizePositionManagement(a, w, c)
  \/ fn = "none" /\ \E a \in SigCalls, b \in SigCalls :
                      CallGenerateSignatureTwice(a, b, 7)
  \/ fn = "none" /\ \E d \in SentimentInputs : CallAnalyzeMarketSentiment(d)
  \/ fn = "none" /\ \E p \in AdvisorParams : CallUpdateStrategyParameters(p)
  \/ fn = "none" /\ \E a \in BOOLEAN, p \in AdvisorParams :
                      CallOptimizeStrategyParameters(a, p)
  \/ fn = "none" /\ \E r \in CandleInputs, rsi \in {25, 50, 75},
                         kd \in {15, 50, 85}, n \in {{}, {"rsi", "kdj"}} :
                      CallIndicatorsAndSignals(r, rsi, kd, n)
  \/ fn = "none" /\ \E p \in TargetPrices, s \in TargetSnapshots :
                      CallCalculateDynamicTargets(p, s)
  \/ fn = "none" /\ \E t \in TickerLists, l \in LimitInputs :
                      CallGetTopVolumePairs(t, l)
  \/ fn = "none" /\ \E t \in TickerLists : CallUpdateTradingPairs(t)

SpecCalls == Init /\ [][NextCalls]_vars

(***************************************************************************)
(* RiskManager: one object and the calls made on it.  Amounts of money and *)
(* prices are integers; the inputs keep away from the exact thresholds,    *)
(* where float rounding would decide.                                      *)
(***************************************************************************)
MaxRiskCalls == 3

\* config['risk_management']['daily_loss_limit'] and ['max_loss_percentage']
DAILY_LOSS_LIMIT == 100
MAX_LOSS_PERCENTAGE == 5

PnlInputs == {-150, -60, 60, 150}
EntryPrices == {100}
RiskPrices == {0, 90, 100, 110}

\* line 25: abs(self.daily_pnl) > daily_loss_limit
LimitBreached(pnl) == Abs(pnl) > DAILY_LOSS_LIMIT

\* lines 11-14 of check_position_risk; initial_price = 0 divides by zero
PositionRisk(symbol, current_price) ==
  LET initial_price == IF IsNone(positions[symbol]) THEN current_price
                       ELSE Val(positions[symbol])
  IN IF initial_price = 0
     THEN [raised |-> TRUE, should_close |-> FALSE]
     ELSE [raised |-> FALSE,
           should_close |->
             Abs(current_price - initial_price) * 100
               > MAX_LOSS_PERCENTAGE * Abs(initial_price)]

\* RiskManager.update_daily_pnl
UpdateDailyPnl(pnl) ==
  /\ daily_pnl' = daily_pnl + pnl
  /\ LET stop == LimitBreached(daily_pnl')
     IN risk_last' =
          [ fn |-> "update_daily_pnl", symbol |-> "", price |-> 0,
            pnl |-> pnl, flag |-> stop, raised |-> FALSE,
            after_halt |-> risk_last.halted,
            halted |-> risk_last.halted
                         \/ (stop /\ daily_pnl' < -DAILY_LOSS_LIMIT),
            n |-> risk_last.n + 1, entry |-> None ]
  /\ UNCHANGED <<positions, loopVars, histVars, callVars, gwVars>>

\* RiskManager.check_position_risk; position_size is not read
CheckPositionRisk(symbol, current_price) ==
  /\ LET r == PositionRisk(symbol, current_price)
     IN risk_last' =
          [ risk_last EXCEPT !.fn = "check_position_risk",
                             !.symbol = symbol, !.price = current_price,
                             !.pnl = 0, !.flag = r.should_close,
                             !.raised = r.raised, !.after_halt = FALSE,
                             !.n = @ + 1, !.entry = positions[symbol] ]
  /\ UNCHANGED <<daily_pnl, positions, loopVars, histVars, callVars, gwVars>>

\* the owner of the object records an opened position in self.positions
RecordPosition(symbol, entry_price) ==
  /\ IsNone(positions[symbol])
  /\ positions' = [positions EXCEPT ![symbol] = Some(entry_price)]
  /\ UNCHANGED <<daily_pnl, risk_last, loopVars, histVars, callVars, gwVars>>

NextRisk ==
  \/ risk_last.n < MaxRiskCalls /\ \E pnl \in PnlInputs : UpdateDailyPnl(pnl)
  \/ risk_last.n < MaxRiskCalls /\ \E sym \in Symbols, p \in RiskPrices :
                                     CheckPositionRisk(sym, p)
  \/ \E sym \in Symbols, e \in EntryPrices : RecordPosition(sym, e)

SpecRisk == Init /\ [][NextRisk]_vars

(***************************************************************************)
(* make_request: the calls made over a session, against the wall clock.    *)
(***************************************************************************)
MaxRequests == 2
MaxClock == 2

GwCalls ==
  [ method : { << "G", "E", "T" >> }, endpoint : SigEndpoints,
    params : { <<>>, << << << "a" >>, StrValue(<< "1" >>) >> >>,
               << << TIMESTAMP_KEY, StrValue(<< "9" >>) >> >> } ]

\* what requests.request does: it raises (no answer), or it returns an
\* answer with a status and a body; `body` is the value of the body's
\* 'result' key, "absent" without that key, "not_json" when json() fails
Responses ==
  { [net |-> "error", status |-> 0, body |-> "absent"] }
    \cup [ net : {"ok"}, status : {200, 300, 401, 500},
           body : {"true", "false", "absent", "not_json"} ]

\* lines 116-150 on the outcome of requests.request: raise_for_status raises
\* on 4xx and 5xx, json() raises on a body that is no JSON, and a result
\* that is false or absent raises ValueError; everything raised is re-raised
HandleResponse(resp) ==
  LET raised == \/ resp.net = "error"
                \/ (400 <= resp.status /\ resp.status < 600)
                \/ resp.body = "not_json"
                \/ resp.body # "true"
  IN [ raised |-> raised, status |-> resp.status, body |-> resp.body,
       net |-> resp.net ]

API_KEY == "api_key"

\* lines 110-112: self.headers.copy() (PIONEX-KEY, Content-Type) with the
\* signature and the timestamp added; the values, as the texts they hold
RequestHeaderValues == {API_KEY, "application/json", "signature", "timestamp"}

\* the messages of one make_request call, each with the texts it embeds:
\* lines 125-127 when requests.request returned, lines 143-150 when the
\* call raises
LogMessages(resp) ==
  ( IF resp.net = "ok"
    THEN { [level |-> "debug", holds |-> {"url"}],
           [level |-> "debug", holds |-> RequestHeaderValues],
           [level |-> "debug", holds |-> {"response_text"}] }
    ELSE {} )
  \cup ( IF HandleResponse(resp).raised
         THEN { [level |-> "error", holds |-> {"exception_text"}] }
         ELSE {} )

\* time passes: time.time() * 1000 reads one more
ClockTick ==
  /\ clock < MaxClock
  /\ clock' = clock + 1
  /\ UNCHANGED <<wire, gw_ret, gw_log, loopVars, histVars, callVars, riskVars>>

\* the parameters sent, had line 107 kept a timestamp the caller supplied
SentParams_KeepCallers(params, timestamp) ==
  IF TIMESTAMP_KEY \in DictKeys(params)
  THEN params
  ELSE DictSet(params, TIMESTAMP_KEY, StrValue(timestamp))

\* line 107: params['timestamp'] = timestamp, on the caller's dict; these
\* are the params handed to requests.request (line 118)
SentParams(params, timestamp) ==
  DictSet(params, TIMESTAMP_KEY, StrValue(timestamp))

\* make_request(method, endpoint, params) at the present reading of the
\* clock, answered by resp
MakeRequestCall(call, resp) ==
  /\ Len(wire) < MaxRequests
  /\ LET sig == GenerateSignature(call.params, call.method, call.endpoint,
                                  clock)
         params == SentParams(sig.params, sig.timestamp)
     IN wire' = Append(wire, [ method |-> call.method,
                               endpoint |-> call.endpoint,
                               params |-> params,
                               signed |-> sig.sorted_params,
                               signature |-> sig.signature,
                               timestamp |-> sig.timestamp ])
  /\ gw_ret' = Some(HandleResponse(resp))
  /\ gw_log' = LogMessages(resp)
  /\ UNCHANGED <<clock, loopVars, histVars, callVars, riskVars>>

NextGateway ==
  \/ ClockTick
  \/ Len(wire) < MaxRequests /\ \E c \in GwCalls, r \in Responses :
                                  MakeRequestCall(c, r)

SpecGateway == Init /\ [][NextGateway]_vars

(***************************************************************************)
(* Properties.                                                             *)
(***************************************************************************)
InLoop == caller = "loop"

\* C1: in trading_loop, whenever a pair's snapshot was fetched, analyze_market
\* said trade with direction buy or sell, every request of the iteration
\* succeeded and the available balance is positive, the iteration ends with
\* a size, targets and a dispatched POST /api/v1/order for that pair.
C1_TradeDispatchesOrder ==
  ( /\ InLoop /\ pc = "pair_done"
    /\ flow.fetched /\ ~flow.req_failed
    /\ ~IsNone(analysis)
    /\ Val(analysis).should_trade
    /\ Val(analysis).trade_direction \in {"buy", "sell"}
    /\ ~IsNone(flow.price)
    /\ ~IsNone(flow.balance) /\ Val(flow.balance) > 0 )
  => ( ~IsNone(flow.size) /\ ~IsNone(flow.targets) /\ flow.posted )

\* C2: when the rules of _get_basic_signals decided buy or sell, check_signals
\* returns the rule-based should_trade and direction, whatever the advisor
\* is and says.
C2_AdvisoryOnlyUpgradesHold ==
  ( fn = "check_signals" /\ BasicSignals(args.ind).should_trade )
  => ( /\ ~IsNone(ret)
       /\ Val(ret).should_trade = BasicSignals(args.ind).should_trade
       /\ Val(ret).direction = BasicSignals(args.ind).direction )

\* C3: for every combination of indicator readings, the BUY condition and
\* the SELL condition of _get_basic_signals are never both true.
C3_SignalExclusivity ==
  fn = "_get_basic_signals"
  => ~( BuyCondition(ret.flags) /\ SellCondition(ret.flags) )

\* a call of _get_basic_signals in which the BUY condition holds and decides
C3_Witness ==
  /\ fn = "_get_basic_signals"
  /\ BuyCondition(ret.flags)
  /\ ret.direction = "buy"
  /\ args.ind.rsi >= RSI_OVERSOLD   \* by the KDJ alternative alone

\* C4: for a snapshot whose readings are all neutral (price_change = 0,
\* volume_intensity not above 1000) analyze_market returns a signal with
\* should_trade = false.
C4_NeutralIsNoTrade ==
  ( /\ fn = "analyze_market"
    /\ args.snap.kind = "ok"
    /\ args.snap.price_change = 0
    /\ args.snap.volume_intensity <= VOLUME_THRESHOLD )
  => ( ~IsNone(ret) /\ ~Val(ret).should_trade )

\* C5: for every available balance >= 0 and every confidence >= 0,
\* optimize_position_management returns a size with
\* 0 <= position_size <= available_balance * 0.3.
C5_SizingBound ==
  ( /\ fn = "optimize_position_management"
    /\ ~IsNone(args.account) /\ Val(args.account) >= 0
    /\ HasKey(args.sentiment, "confidence")
    /\ args.sentiment.confidence >= 0 )
  => ( /\ ~IsNone(ret)
       /\ 0 <= Val(ret)
       /\ Val(ret) <= MaxPosition(Val(args.account)) )

\* a call in which the uncapped size exceeds the maximum and the cap decides
C5_Witness ==
  /\ fn = "optimize_position_management"
  /\ ~IsNone(args.account) /\ Val(args.account) > 0
  /\ HasKey(args.sentiment, "confidence")
  /\ args.sentiment.confidence > 2 * Scale
  /\ ~IsNone(ret)
  /\ Val(ret) = MaxPosition(Val(args.account))

\* C6: after a POST order request timed out, no further order is submitted
\* for that pair until the account state was queried again and shows that
\* the order was not executed.
C6_NoBlindResubmit == ~resubmitted

\* C7: after stop_trading was called while the loop runs, the loop starts no
\* further tick.
C7_StopEndsLoop == stop_tick # 0 => tick = stop_tick

\* C8: once a request of the trading loop failed with an authentication
\* error, the loop issues no further exchange request.
C8_AuthFailureEndsSession == ~reqAfterAuth

\* C9: a make_request call that meets a rate-limit or transient network
\* error attempts the request again within the call.
C9_TransientIsRetried ==
  ( fn = "make_request" /\ args.outcome \in Transient ) => ret.attempts >= 2

\* C10: in a tick, a pair left by a failure is the only pair skipped: the
\* later pairs are entered in the same tick, is_trading stays true and the
\* loop reaches the sleep that precedes the next tick.  (The loop is left
\* only from that sleep, by an exception raised outside the processing of
\* the pairs.)
C10_FailureSkipsOnlyThatPair ==
  InLoop =>
    /\ pc # "returned" => is_trading
    /\ skipped \subseteq visited
    /\ visited = 1..(IF pc = "fetch" THEN idx - 1 ELSE idx)
    /\ pc \in {"sleep", "returned"} => visited = DOMAIN trading_pairs

\* a tick that reached its sleep although an earlier pair failed, a later
\* pair having been processed after it
C10_Witness ==
  /\ InLoop /\ pc = "sleep" /\ is_trading
  /\ \E i \in skipped : \E j \in visited \ skipped : j > i

\* a call of place_buy_order / place_sell_order that has returned
FlowReturned == flow.side # "none" /\ pc \in {"idle", "pair_done"}

\* C11: place_buy_order and place_sell_order dispatch the order request only
\* with a current price, a position size > 0 and targets in hand; a call
\* that lacks one of them returns without a dispatched order and without an
\* order id, and returns to its caller in the normal way.
C11_NoOrderWithoutInputs ==
  /\ flow.posted => /\ ~IsNone(flow.price)
                    /\ ~IsNone(flow.size) /\ Val(flow.size) > 0
                    /\ ~IsNone(flow.targets)
  /\ ( FlowReturned /\ ( \/ IsNone(flow.price)
                         \/ IsNone(flow.size) \/ Val(flow.size) <= 0
                         \/ IsNone(flow.targets) ) )
     => ( ~flow.posted /\ ~flow.order_id )

\* a call that returned without an order because the computed size was 0
C11_Witness ==
  /\ FlowReturned
  /\ ~IsNone(flow.price)
  /\ ~IsNone(flow.size) /\ Val(flow.size) <= 0
  /\ ~flow.posted /\ ~flow.order_id

\* C12: once update_daily_pnl has reported should_stop_trading = true on a
\* cumulative loss beyond daily_loss_limit, every later update_daily_pnl
\* call reports true as well.
C12_HaltHoldsForTheDay ==
  ( risk_last.fn = "update_daily_pnl" /\ risk_last.after_halt )
  => risk_last.flag

\* C13: update_daily_pnl reports should_stop_trading = true exactly when the
\* cumulative daily_pnl is a loss larger than daily_loss_limit.
C13_HaltOnlyOnLoss ==
  risk_last.fn = "update_daily_pnl"
  => ( risk_last.flag <=> daily_pnl < -DAILY_LOSS_LIMIT )

\* C14: check_position_risk returns should_close = true exactly when the
\* symbol has a recorded position and the current price lies below its
\* entry price by more than max_loss_percentage percent of it.
C14_CloseOnlyOnLoss ==
  risk_last.fn = "check_position_risk"
  => ( risk_last.flag <=>
         /\ ~IsNone(risk_last.entry)
         /\ (Val(risk_last.entry) - risk_last.price) * 100
              > MAX_LOSS_PERCENTAGE * Val(risk_last.entry) )

\* a dict as a mapping: its items, whatever the insertion order
ItemSet(d) == { d[i] : i \in 1..Len(d) }

\* two dicts differ in one place: one value, one key, or one item more
OneParamDiffers(p, q) ==
  LET P == ItemSet(p) \ ItemSet(q)
      Q == ItemSet(q) \ ItemSet(p)
  IN /\ ItemSet(p) # ItemSet(q)
     /\ Cardinality(P) <= 1 /\ Cardinality(Q) <= 1
     /\ \A x \in P, y \in Q : x[1] = y[1] \/ x[2] = y[2]

\* two calls differ in the method only, the endpoint only, or one parameter
SingleDifference(a, b) ==
  \/ a.method # b.method /\ a.endpoint = b.endpoint
       /\ ItemSet(a.params) = ItemSet(b.params)
  \/ a.method = b.method /\ a.endpoint # b.endpoint
       /\ ItemSet(a.params) = ItemSet(b.params)
  \/ a.method = b.method /\ a.endpoint = b.endpoint
       /\ OneParamDiffers(a.params, b.params)

SameCall(a, b) ==
  a.method = b.method /\ a.endpoint = b.endpoint
    /\ ItemSet(a.params) = ItemSet(b.params)

\* what of a call enters the signed string besides the timestamp of the
\* call: the method without its letter case, the endpoint, and the text of
\* the keys and values of the parameters other than 'timestamp'
Effective(c) ==
  [ method |-> Upper(c.method), endpoint |-> c.endpoint,
    params |-> { <<x[1], Format(x[2])>> :
                   x \in { y \in ItemSet(c.params) : y[1] # TIMESTAMP_KEY } } ]

CanonicalCall(c, r, now) ==
  LET sp == r.sorted_params
  IN /\ r.sign_str = Upper(c.method) \o c.endpoint \o << "?" >> \o ParamStr(sp)
     /\ ItemSet(sp) = { x \in ItemSet(c.params) : x[1] # TIMESTAMP_KEY }
                        \cup { <<TIMESTAMP_KEY, StrValue(Digits(now))>> }
     /\ Len(sp) = Cardinality(ItemSet(sp))
     /\ \A i, j \in 1..Len(sp) : i < j => StrLess(sp[i][1], sp[j][1])
     /\ r.params = c.params

\* C16: the signed string is UPPERCASE(method) + endpoint + "?" + the
\* key=value pairs of (params plus timestamp) in ascending key order joined
\* by "&"; it is the same for every insertion order of the same params; and
\* the caller's params are as they were.
C16_CanonicalString ==
  fn = "generate_signature" =>
    /\ CanonicalCall(args.a, ret.a, args.now)
    /\ CanonicalCall(args.b, ret.b, args.now)
    /\ SameCall(args.a, args.b) => ret.a.sign_str = ret.b.sign_str

\* two calls with the same two parameters inserted in opposite orders
C16_Witness ==
  /\ fn = "generate_signature"
  /\ SameCall(args.a, args.b)
  /\ Len(args.a.params) = 2
  /\ args.a.params # args.b.params
  /\ ~StrLess(args.a.params[1][1], args.a.params[2][1])
  /\ ret.a.sign_str = ret.b.sign_str

\* C17: over any sequence of make_request calls, no two dispatched requests
\* carry the same signature.
C17_SignaturesNeverReused ==
  \A i, j \in 1..Len(wire) :
    i < j => wire[i].signature # wire[j].signature

\* C18: make_request returns a response only when the HTTP status is 2xx
\* and the result flag of the body is true; a non-2xx status, a result that
\* is false or absent, and a network error each raise.
C18_ReturnsOnlySuccess ==
  ~IsNone(gw_ret) =>
    ( ~Val(gw_ret).raised <=>
        /\ Val(gw_ret).net = "ok"
        /\ 200 <= Val(gw_ret).status /\ Val(gw_ret).status < 300
        /\ Val(gw_ret).body = "true" )

\* C19: every signal returned by analyze_market has a confidence in [0, 1].
C19_ConfidenceInUnitInterval ==
  ( fn = "analyze_market" /\ ~IsNone(ret) )
  => ( 0 <= Val(ret).confidence /\ Val(ret).confidence <= Scale )

\* C20: in trading_loop the decision taken for a pair whose snapshot was
\* fetched is the signal of analyze_market on that snapshot, and the order
\* flow it starts is the one of that signal, with no advisor, with an
\* advisor that answers and with an advisor that fails alike.
C20_AdvisorDoesNotDecide ==
  ( InLoop /\ flow.fetched ) =>
    /\ ~IsNone(analysis)
    /\ \E s \in LoopSnapshots : analysis = AnalyzeMarket(s)
    /\ idx \notin skipped
    /\ flow.side = IF Val(analysis).should_trade
                   THEN Val(analysis).trade_direction ELSE "none"
    /\ ( pc = "pair_done" /\ Val(analysis).should_trade )
         => ( flow.req_failed \/ ~IsNone(flow.price) )

\* an advisor is configured and failed on this pair, and the order flow of
\* the pair went on to its price
C20_Witness ==
  /\ InLoop /\ ai_advisor
  /\ flow.fetched /\ ~flow.ai_analysis
  /\ flow.side \in {"buy", "sell"}
  /\ ~IsNone(flow.price)

\* C21: when analyze_market_sentiment cannot compute the sentiment (no
\* data, empty frame, missing field, value that is not numeric) it returns
\* the neutral default snapshot: fear_greed_index 50, the other scores 0.
C21_FailureGivesNeutralDefault ==
  ( fn = "analyze_market_sentiment" /\ args.data.kind # "ok" )
  => ( /\ ~IsNone(ret)
       /\ Val(ret).fear_greed_index = 50
       /\ Val(ret).trend_strength = 0
       /\ Val(ret).volume_trend = 0
       /\ Val(ret).volatility_level = 0
       /\ Val(ret).market_momentum = 0 )

\* C22: no log message of a make_request call holds the api_key or the
\* api_secret, at any log level.
C22_CredentialsNeverLogged ==
  \A m \in gw_log : API_KEY \notin m.holds /\ API_SECRET \notin m.holds

C24_FlatMarketIsNoTrade ==
  ( /\ fn = "calculate_indicators"
    /\ args.row.high = args.row.low /\ args.row.low = args.row.close )
  => ( /\ ret.indicators.price_position = 50
       /\ ~ret.signals.should_trade
       /\ ret.signals.direction = "none" )

\* a flat row with a strong up trend and an oversold RSI: the price
\* position alone keeps the decision at no trade
C24_Witness ==
  /\ fn = "calculate_indicators"
  /\ args.row.high = args.row.low /\ args.row.low = args.row.close
  /\ ret.signals.flags.trend_strong_up
  /\ ret.signals.flags.rsi_oversold
  /\ ~ret.signals.should_trade

\* C25: _get_basic_signals returns should_trade with direction buy exactly
\* when the trend is strong up and (RSI < 30 or (K < 20 and D < 20)) and
\* price_position < 30; with direction sell exactly when the trend is
\* strong down and (RSI > 70 or (K > 80 and D > 80)) and price_position >
\* 70; in every other case, readings equal to a threshold included,
\* should_trade is false and the direction is none.
C25_BasicSignalsExact ==
  fn = "_get_basic_signals" =>
    LET ind == args.ind
        rsi_ok == "rsi" \notin ind.nan
        kdj_ok == "kdj" \notin ind.nan
        up == ind.market_strength > 0 /\ ind.volume_intensity > 1000
        down == ind.market_strength < 0 /\ ind.volume_intensity > 1000
        buy == /\ up
               /\ \/ rsi_ok /\ ind.rsi < 30
                  \/ kdj_ok /\ ind.k < 20 /\ ind.d < 20
               /\ ind.price_position < 30
        sell == /\ down
                /\ \/ rsi_ok /\ ind.rsi > 70
                   \/ kdj_ok /\ ind.k > 80 /\ ind.d > 80
                /\ ind.price_position > 70
    IN /\ (ret.should_trade /\ ret.direction = "buy") <=> buy
       /\ (ret.should_trade /\ ret.direction = "sell") <=> sell
       /\ ~(buy \/ sell) => (~ret.should_trade /\ ret.direction = "none")

\* readings that meet the buy condition but for a price position equal to
\* its threshold: no trade
C25_Witness ==
  /\ fn = "_get_basic_signals"
  /\ args.ind.market_strength > 0 /\ args.ind.volume_intensity > 1000
  /\ args.ind.nan = {} /\ args.ind.rsi < 30
  /\ args.ind.price_position = 30
  /\ ~ret.should_trade /\ ret.direction = "none"

\* C26: analyze_market computes composite = technical_score * 0.6 +
\* sentiment_score * 0.4 and returns should_trade exactly when
\* |composite| > 0.5, then with direction buy for composite > 0, sell for
\* composite < 0, and confidence |composite|; otherwise should_trade false,
\* direction none, confidence 0.  (composite in units of 1/750.)
C26_CompositeDecides ==
  ( fn = "analyze_market" /\ args.snap.kind = "ok" ) =>
    LET change == args.snap.price_change
        vi == args.snap.volume_intensity
        technical == IF change > 0 /\ vi > 1000 THEN 1 ELSE -1
        volume == IF vi > 1000 THEN 1 ELSE -1
        \* 750 * (0.6 * technical + 0.4 * (technical + volume + pc/100) / 3)
        composite == 450 * technical + 100 * (technical + volume) + change
        r == Val(ret)
    IN /\ ~IsNone(ret)
       /\ r.score = composite
       /\ r.should_trade <=> 2 * Abs(composite) > 750
       /\ r.should_trade =>
            /\ r.trade_direction = IF composite > 0 THEN "buy" ELSE "sell"
            /\ r.confidence = Abs(composite)
       /\ ~r.should_trade => ( r.trade_direction = "none" /\ r.confidence = 0 )

\* a snapshot whose composite lies within [-0.5, 0.5]: no trade
C26_Witness ==
  /\ fn = "analyze_market" /\ args.snap.kind = "ok"
  /\ ~IsNone(ret)
  /\ ~Val(ret).should_trade
  /\ Val(ret).confidence = 0
  /\ Val(ret).score # 0

\* C27: for every request dispatched by make_request, the timestamp inside
\* the signed string, the timestamp query parameter sent and the
\* PIONEX-TIMESTAMP header are the same value, and the parameters sent are
\* exactly the parameters that were signed, also when the caller's params
\* already held a timestamp key.
C27_SignedIsSent ==
  \A i \in 1..Len(wire) :
    LET w == wire[i]
        stamps(d) == { j \in 1..Len(d) : d[j][1] = TIMESTAMP_KEY }
    IN /\ w.signature.message
            = SignStr(w.method, w.endpoint, ParamStr(w.signed))
       /\ Cardinality(stamps(w.signed)) = 1
       /\ Cardinality(stamps(w.params)) = 1
       /\ \A j \in stamps(w.signed) : Format(w.signed[j][2]) = w.timestamp
       /\ \A j \in stamps(w.params) : Format(w.params[j][2]) = w.timestamp
       /\ ItemSet(w.params) = ItemSet(w.signed)

\* a request whose caller had put its own timestamp among the params, sent
\* after the clock moved on
C27_Witness ==
  \E i \in 1..Len(wire) :
    /\ wire[i].timestamp = Digits(1)
    /\ Len(wire[i].params) = 1
    /\ wire[i].params[1][1] = TIMESTAMP_KEY

\* C28: for every price > 0 and every confidence produced by the signal
\* step, calculate_dynamic_targets returns
\* take_profit = price * (1 + 0.02 * (1 + confidence)) and
\* stop_loss = price * (1 - 0.01 * (1 - 0.5 * confidence)), so that
\* stop_loss < price < take_profit; with no price it returns no targets.
\* (targets in units of 1/(200*750), confidence in units of 1/750.)
C28_TargetsBracketPrice ==
  fn = "calculate_dynamic_targets" =>
    IF IsNone(args.price) THEN IsNone(ret)
    ELSE LET price == Val(args.price)
             c == args.sentiment.confidence
         IN /\ ~IsNone(ret)
            /\ Val(ret).take_profit = price * (150000 + 4 * (750 + c))
            /\ Val(ret).stop_loss = price * (150000 - (1500 - c))
            /\ Val(ret).stop_loss < price * 150000
            /\ price * 150000 < Val(ret).take_profit

\* C29: start_trading called with non-empty settings does not return while
\* is_trading stays true; is_trading becomes false only when an exception
\* escapes the tick loop, and then start_trading returns False: it never
\* returns True after having run the loop.
C29_LoopEndsOnlyByException ==
  /\ start_result # "True"
  /\ ( caller = "loop" /\ is_trading ) => pc \notin {"returned", "idle"}
  /\ ( caller = "loop" /\ ~is_trading ) =>
       ( pc = "returned" /\ start_result = "False" )
  /\ pc = "returned" => ( ~is_trading /\ start_result = "False" )

\* an exception escaped the loop in its second tick or later
C29_Witness ==
  /\ caller = "loop"
  /\ tick >= 2
  /\ ~is_trading
  /\ pc = "returned"
  /\ start_result = "False"

\* a ticker whose symbol ends with _USDT_PERP and whose amount is > 0
PerpWithAmount(ticker) ==
  EndsWith(ticker.symbol, USDT_PERP) /\ ticker.amount > 0

\* the positions of the tickers of a list whose symbol ends with _USDT_PERP
\* and whose amount is > 0 and, with `readable`, whose other fields are
\* accepted as well
TickersWhere(tickers, readable) ==
  { i \in 1..Len(tickers) :
      PerpWithAmount(tickers[i]) /\ (readable => tickers[i].fields_ok) }

\* the entries are at most `limit`, each built from one of those tickers,
\* ordered by amount non-increasing, and none of those tickers that is left
\* out has a larger amount than an entry returned
TopOf(tickers, limit, pairs, readable) ==
  /\ Len(pairs) <= limit
  /\ \A i \in 1..Len(pairs) :
       \E j \in TickersWhere(tickers, readable) :
         /\ tickers[j].symbol = pairs[i].symbol
         /\ tickers[j].amount = pairs[i].volume
  /\ \A i \in 1..Len(pairs) - 1 : pairs[i].volume >= pairs[i + 1].volume
  /\ \A j \in TickersWhere(tickers, readable) :
       \/ \E i \in 1..Len(pairs) :
            /\ tickers[j].symbol = pairs[i].symbol
            /\ tickers[j].amount = pairs[i].volume
       \/ \A i \in 1..Len(pairs) : tickers[j].amount <= pairs[i].volume

\* what the two functions return, in terms of those tickers
TopVolumePairsFor(readable) ==
  /\ fn = "get_top_volume_pairs" =>
       /\ ( TickersWhere(args.tickers, readable) = {} => ret.raised )
       /\ ( ~ret.raised =>
              /\ ret.pairs # <<>>
              /\ TopOf(args.tickers, args.limit, ret.pairs, readable) )
  /\ ( fn = "update_trading_pairs" /\ ~ret.raised ) =>
       /\ ret.trading_pairs # <<>>
       /\ \A i \in 1..Len(ret.trading_pairs) :
            \E j \in TickersWhere(args.tickers, readable) :
              args.tickers[j].symbol = ret.trading_pairs[i]

====
